---- MODULE Spec2Model ----
(***************************************************************************)
(* Interpreter resolution of scriptman (pkg/interpreter/detect.go) and the  *)
(* install command that calls it (package install).                        *)
(*                                                                         *)
(* Strings are TLA+ strings; the Go string functions the code calls        *)
(* (strings.TrimSpace, strings.Fields, filepath.Base, filepath.Ext, the    *)
(* version-stripping regexp, ...) are computed character by character.     *)
(* A nil pointer / nil error is the empty tuple Nil.                       *)
(***************************************************************************)
EXTENDS Integers, Sequences, FiniteSets, TLC

VARIABLES
    scriptPath,            \* DecisionInput.scriptPath
    scriptContent,         \* DecisionInput.scriptContent
    explicitInterpreter,   \* DecisionInput.explicitInterpreter
    trustShebang,          \* DecisionInput.trustShebang
    decision,              \* the DecisionResult of DetermineInterpreterChoices
    pc,                    \* "start" before the call, "decided" after it, "done" when
                           \* Detect has returned, "exited" when the command has ended
    executables,           \* the executable files of the file system (absolute paths)
    prompted,              \* the mediator Detect invoked: "none", "single" or "multiple"
    answer,                \* Nil, or <<the line the mediator read from standard input>>
    resolved,              \* the choices passed to resolveChoice, in order
    lookups,               \* the names passed to exec.LookPath, in order
    result,                \* what Detect returned: [path, warning, err]
    exitCode,              \* Nil while the process runs, <<status>> once main has exited
    opts,                  \* install.Options: Repo, Name, Into (Path is scriptPath and
                           \* Interpreter is explicitInterpreter)
    registryFile,          \* the registry on disk: Nil (no file) or <<its entries>>
    files,                 \* the script and wrapper files on disk: [path, content]
    before,                \* registryFile and files as they were when the command began
    installState,          \* the locals of runInstall: name, binDir, reg, localScriptPath
    steps,                 \* the calls runInstall has made, in order
    installErr             \* Nil, or <<the error runInstall returned>>

vars == <<scriptPath, scriptContent, explicitInterpreter, trustShebang, decision, pc,
          executables, prompted, answer, resolved, lookups, result, exitCode,
          opts, registryFile, files, before, installState, steps, installErr>>

\* What belongs to runInstall alone.
installVars == <<opts, registryFile, files, before, installState, steps, installErr>>

\* What Detect leaves alone while DetermineInterpreterChoices runs.
detectVars == <<executables, prompted, answer, resolved, lookups, result, exitCode>>

inputVars == <<scriptPath, scriptContent, explicitInterpreter, trustShebang>>

\* Largest number of arguments written after the interpreter in a generated shebang line.
MaxArgs == 2

Nil == <<>>

(***************************************************************************)
(* Go standard library functions used by the code                          *)
(***************************************************************************)

Ch(s, i) == SubSeq(s, i, i)

IsSpace(c) == c \in {" ", "\t", "\n", "\r"}

IsDigit(c) == c \in {"0", "1", "2", "3", "4", "5", "6", "7", "8", "9"}

\* strings.HasPrefix
HasPrefix(s, p) == Len(s) >= Len(p) /\ SubSeq(s, 1, Len(p)) = p

\* strings.HasSuffix
HasSuffix(s, p) == Len(s) >= Len(p) /\ SubSeq(s, Len(s) - Len(p) + 1, Len(s)) = p

\* strings.Contains
Contains(s, sub) == \E i \in 1..(Len(s) - Len(sub) + 1) : SubSeq(s, i, i + Len(sub) - 1) = sub

\* strings.TrimSpace
TrimSpace(s) ==
    LET idx  == {i \in 1..Len(s) : ~IsSpace(Ch(s, i))}
        Min  == CHOOSE i \in idx : \A j \in idx : i <= j
        Max  == CHOOSE i \in idx : \A j \in idx : i >= j
    IN  IF idx = {} THEN "" ELSE SubSeq(s, Min, Max)

\* strings.Fields: the maximal runs of non-space characters, in order
RECURSIVE FieldsFrom(_, _)
FieldsFrom(s, i) ==
    IF i > Len(s) THEN <<>>
    ELSE IF IsSpace(Ch(s, i)) THEN FieldsFrom(s, i + 1)
    ELSE LET stops == {j \in i..Len(s) : IsSpace(Ch(s, j))}
             end   == IF stops = {} THEN Len(s) + 1
                      ELSE CHOOSE j \in stops : \A k \in stops : j <= k
         IN  <<SubSeq(s, i, end - 1)>> \o FieldsFrom(s, end)

Fields(s) == FieldsFrom(s, 1)

\* strings.Join
RECURSIVE Join(_, _)
Join(elems, sep) ==
    IF Len(elems) = 0 THEN ""
    ELSE IF Len(elems) = 1 THEN elems[1]
    ELSE elems[1] \o sep \o Join(Tail(elems), sep)

\* filepath.IsAbs (Unix)
IsAbs(path) == HasPrefix(path, "/")

\* filepath.Base (Unix): "" gives ".", trailing slashes are dropped, the text
\* after the last slash is kept, and a path of slashes only gives "/".
RECURSIVE StripTrailingSlashes(_)
StripTrailingSlashes(path) ==
    IF Len(path) > 0 /\ Ch(path, Len(path)) = "/"
    THEN StripTrailingSlashes(SubSeq(path, 1, Len(path) - 1))
    ELSE path

Base(path) ==
    IF path = "" THEN "."
    ELSE LET p       == StripTrailingSlashes(path)
             slashes == {i \in 1..Len(p) : Ch(p, i) = "/"}
             last    == IF slashes = {} THEN 0
                        ELSE CHOOSE i \in slashes : \A j \in slashes : i >= j
             q       == SubSeq(p, last + 1, Len(p))
         IN  IF q = "" THEN "/" ELSE q

\* filepath.Ext: the suffix beginning at the final dot of the final path
\* element; empty when that element has no dot.
RECURSIVE ExtFrom(_, _)
ExtFrom(path, i) ==
    IF i < 1 \/ Ch(path, i) = "/" THEN ""
    ELSE IF Ch(path, i) = "." THEN SubSeq(path, i, Len(path))
    ELSE ExtFrom(path, i - 1)

Ext(path) == ExtFrom(path, Len(path))

\* bufio.Scanner with the default ScanLines split, first Scan only: Nil when
\* Scan reports false (empty content), else <<the first line>> without its
\* line end ("\n" or "\r\n").
DropCR(line) ==
    IF Len(line) > 0 /\ Ch(line, Len(line)) = "\r"
    THEN SubSeq(line, 1, Len(line) - 1)
    ELSE line

ScanFirstLine_WholeContent(content) ==
    IF content = "" THEN Nil ELSE <<content>>

ScanFirstLine(content) ==
    IF content = "" THEN Nil
    ELSE LET nls == {i \in 1..Len(content) : Ch(content, i) = "\n"}
             nl  == IF nls = {} THEN Len(content) + 1
                    ELSE CHOOSE i \in nls : \A j \in nls : i <= j
         IN  <<DropCR(SubSeq(content, 1, nl - 1))>>

(***************************************************************************)
(* Tables                                                                  *)
(***************************************************************************)

ExtensionMap ==
    [e \in {".py", ".rb", ".pl", ".sh", ".bash", ".zsh", ".js", ".lua", ".php"} |->
        CASE e = ".py"   -> <<"python3", "python">>
          [] e = ".rb"   -> <<"ruby">>
          [] e = ".pl"   -> <<"perl">>
          [] e = ".sh"   -> <<"sh">>
          [] e = ".bash" -> <<"bash">>
          [] e = ".zsh"  -> <<"zsh">>
          [] e = ".js"   -> <<"node">>
          [] e = ".lua"  -> <<"lua">>
          [] e = ".php"  -> <<"php">>]

interpreterFamilies ==
    [n \in {"python", "python2", "python3", "ruby", "ruby2", "ruby3", "perl", "perl5",
            "sh", "bash", "dash", "zsh", "ksh", "node", "nodejs", "lua", "php"} |->
        CASE n \in {"python", "python2", "python3"}     -> "python"
          [] n \in {"ruby", "ruby2", "ruby3"}           -> "ruby"
          [] n \in {"perl", "perl5"}                    -> "perl"
          [] n \in {"sh", "bash", "dash", "zsh", "ksh"} -> "shell"
          [] n \in {"node", "nodejs"}                   -> "javascript"
          [] n = "lua"                                  -> "lua"
          [] n = "php"                                  -> "php"]

(***************************************************************************)
(* Shebang analysis and family classification                              *)
(***************************************************************************)

\* parseShebang: Nil when there is no hint, else <<shebangInfo>>.
parseShebang_HashOnly(content) ==
    LET scan == ScanFirstLine(content)
    IN  IF scan = Nil THEN Nil
        ELSE LET fullLine == TrimSpace(scan[1])
             IN  IF ~HasPrefix(fullLine, "#") THEN Nil
                 ELSE LET line   == TrimSpace(SubSeq(fullLine, 3, Len(fullLine)))
                          parts  == Fields(line)
                          envIdx == {i \in 1..Len(parts) :
                                        HasSuffix(parts[i], "/env") /\ i + 1 <= Len(parts)}
                          i      == CHOOSE k \in envIdx : \A m \in envIdx : k <= m
                      IN  IF Contains(line, "/env") /\ envIdx # {}
                          THEN <<[interpreter |-> parts[i + 1],
                                  arguments   |-> SubSeq(parts, i + 2, Len(parts)),
                                  usesEnv     |-> TRUE,
                                  fullLine    |-> fullLine]>>
                          ELSE IF Len(parts) > 0
                          THEN <<[interpreter |-> Base(parts[1]),
                                  arguments   |-> Tail(parts),
                                  usesEnv     |-> FALSE,
                                  fullLine    |-> fullLine]>>
                          ELSE Nil

parseShebang_KeepsPath(content) ==
    LET scan == ScanFirstLine(content)
    IN  IF scan = Nil THEN Nil
        ELSE LET fullLine == TrimSpace(scan[1])
             IN  IF ~HasPrefix(fullLine, "#!") THEN Nil
                 ELSE LET line   == TrimSpace(SubSeq(fullLine, 3, Len(fullLine)))
                          parts  == Fields(line)
                          envIdx == {i \in 1..Len(parts) :
                                        HasSuffix(parts[i], "/env") /\ i + 1 <= Len(parts)}
                          i      == CHOOSE k \in envIdx : \A m \in envIdx : k <= m
                      IN  IF Contains(line, "/env") /\ envIdx # {}
                          THEN <<[interpreter |-> parts[i + 1],
                                  arguments   |-> SubSeq(parts, i + 2, Len(parts)),
                                  usesEnv     |-> TRUE,
                                  fullLine    |-> fullLine]>>
                          ELSE IF Len(parts) > 0
                          THEN <<[interpreter |-> parts[1],
                                  arguments   |-> Tail(parts),
                                  usesEnv     |-> FALSE,
                                  fullLine    |-> fullLine]>>
                          ELSE Nil

parseShebang(content) ==
    LET scan == ScanFirstLine(content)
    IN  IF scan = Nil THEN Nil
        ELSE LET fullLine == TrimSpace(scan[1])
             IN  IF ~HasPrefix(fullLine, "#!") THEN Nil
                 ELSE LET line   == TrimSpace(SubSeq(fullLine, 3, Len(fullLine)))
                          parts  == Fields(line)
                          envIdx == {i \in 1..Len(parts) :
                                        HasSuffix(parts[i], "/env") /\ i + 1 <= Len(parts)}
                          i      == CHOOSE k \in envIdx : \A m \in envIdx : k <= m
                      IN  IF Contains(line, "/env") /\ envIdx # {}
                          THEN <<[interpreter |-> parts[i + 1],
                                  arguments   |-> SubSeq(parts, i + 2, Len(parts)),
                                  usesEnv     |-> TRUE,
                                  fullLine    |-> fullLine]>>
                          ELSE IF Len(parts) > 0
                          THEN <<[interpreter |-> Base(parts[1]),
                                  arguments   |-> Tail(parts),
                                  usesEnv     |-> FALSE,
                                  fullLine    |-> fullLine]>>
                          ELSE Nil

\* Number of digits at the end of s.
RECURSIVE TrailingDigits(_)
TrailingDigits(s) ==
    IF Len(s) > 0 /\ IsDigit(Ch(s, Len(s)))
    THEN 1 + TrailingDigits(SubSeq(s, 1, Len(s) - 1))
    ELSE 0

\* regexp `\d+\.\d+$` replaced by "": the leftmost match that reaches the end
\* of the name is the whole run digits "." digits.
StripVersion_TrailingNumber(interpreter) ==
    LET minor == TrailingDigits(interpreter)
        dot   == Len(interpreter) - minor
    IN  IF minor >= 1 /\ dot >= 1 /\ Ch(interpreter, dot) = "."
        THEN SubSeq(interpreter, 1, dot - 1)
        ELSE SubSeq(interpreter, 1, dot)

StripVersion(interpreter) ==
    LET minor == TrailingDigits(interpreter)
        dot   == Len(interpreter) - minor
        major == TrailingDigits(SubSeq(interpreter, 1, dot - 1))
    IN  IF minor >= 1 /\ dot >= 1 /\ Ch(interpreter, dot) = "." /\ major >= 1
        THEN SubSeq(interpreter, 1, dot - 1 - major)
        ELSE interpreter

getInterpreterFamily(interpreter) ==
    LET base == StripVersion(interpreter)
    IN  IF base \in DOMAIN interpreterFamilies THEN interpreterFamilies[base] ELSE base

(***************************************************************************)
(* Decision engine                                                         *)
(***************************************************************************)

\* An InterpreterChoice; fields a Go struct literal omits hold their zero value.
Choice(source, interp, alts, useShebang, reason, requiresPrompt) ==
    [Source |-> source, Interpreter |-> interp, Alternatives |-> alts,
     UseShebang |-> useShebang, Reason |-> reason, RequiresPrompt |-> requiresPrompt]

\* Priority 1: the explicit interpreter.
ExplicitResult(d) ==
    [Choices |-> <<Choice("explicit", d.explicitInterpreter, <<>>, FALSE,
                          "Explicitly specified via --interpreter flag", FALSE)>>,
     Error   |-> Nil]

\* Priority 2 with trustShebang: the shebang without any checks.
TrustResult_ChecksEnv(shebang) ==
    [Choices |-> <<Choice("shebang", shebang.interpreter, <<>>, FALSE,
                          "Trusting shebang via --trust-shebang flag", ~shebang.usesEnv)>>,
     Error   |-> Nil]

TrustResult(shebang) ==
    [Choices |-> <<Choice("shebang", shebang.interpreter, <<>>, FALSE,
                          "Trusting shebang via --trust-shebang flag", FALSE)>>,
     Error   |-> Nil]

\* Priority 3: extension mapping only (no shebang).
ExtensionOnlyResult_FirstOnly(ext) ==
    [Choices |-> <<Choice("extension-alternatives", "", <<ExtensionMap[ext][1]>>, FALSE,
                          "Based on file extension " \o ext, FALSE)>>,
     Error   |-> Nil]

ExtensionOnlyResult_SourceExtension(ext) ==
    [Choices |-> <<Choice("extension", "", ExtensionMap[ext], FALSE,
                          "Based on file extension " \o ext, FALSE)>>,
     Error   |-> Nil]

ExtensionOnlyResult(ext) ==
    [Choices |-> <<Choice("extension-alternatives", "", ExtensionMap[ext], FALSE,
                          "Based on file extension " \o ext, FALSE)>>,
     Error   |-> Nil]

\* Priority 4: no information available.
UndeterminableResult_GuessesSh(d, ext) ==
    [Choices |-> <<Choice("extension-alternatives", "", <<"sh">>, FALSE,
                          "Based on file extension " \o ext, TRUE)>>,
     Error   |-> Nil]

UndeterminableResult(d, ext) ==
    [Choices |-> <<>>,
     Error   |-> <<"could not determine interpreter for " \o d.scriptPath
                   \o " (no --interpreter, no shebang, extension " \o ext
                   \o " not recognized)">>]

\* Case 1 guard: the shebang has arguments and is not in env form.
HasUnsafeArguments_IgnoresArguments(shebang) == FALSE

HasUnsafeArguments(shebang) == Len(shebang.arguments) > 0 /\ ~shebang.usesEnv

\* Case 1: extension-based and shebang offered together when the extension is
\* mapped, else the shebang alone; every choice requires the prompt.
ArgumentsResult_DropsUnmapped(ext, shebang) ==
    IF ext \in DOMAIN ExtensionMap
    THEN [Choices |-> <<Choice("extension-alternatives", "", ExtensionMap[ext], FALSE,
                               "Use extension-based interpreter without arguments (recommended)",
                               TRUE),
                        Choice("shebang", shebang.interpreter, <<>>, TRUE,
                               "Use shebang verbatim: " \o shebang.fullLine
                                   \o " (may be system-specific)", TRUE)>>,
          Error   |-> Nil]
    ELSE [Choices |-> <<>>, Error |-> Nil]

ArgumentsResult(ext, shebang) ==
    IF ext \in DOMAIN ExtensionMap
    THEN [Choices |-> <<Choice("extension-alternatives", "", ExtensionMap[ext], FALSE,
                               "Use extension-based interpreter without arguments (recommended)",
                               TRUE),
                        Choice("shebang", shebang.interpreter, <<>>, TRUE,
                               "Use shebang verbatim: " \o shebang.fullLine
                                   \o " (may be system-specific)", TRUE)>>,
          Error   |-> Nil]
    ELSE [Choices |-> <<Choice("shebang", shebang.interpreter, <<>>, TRUE,
                               "Shebang with arguments: " \o shebang.fullLine
                                   \o " (requires confirmation)", TRUE)>>,
          Error   |-> Nil]

\* Case 2: no file extension.
NoExtensionResult_AlwaysPrompts(shebang) ==
    [Choices |-> <<Choice("shebang", shebang.interpreter, <<>>, FALSE,
                          "No file extension, using shebang: " \o shebang.fullLine,
                          TRUE)>>,
     Error   |-> Nil]

NoExtensionResult(shebang) ==
    [Choices |-> <<Choice("shebang", shebang.interpreter, <<>>, FALSE,
                          "No file extension, using shebang: " \o shebang.fullLine,
                          ~shebang.usesEnv)>>,
     Error   |-> Nil]

\* Case 3: extension not recognized.
UnrecognizedResult_TrustsEnv(ext, shebang) ==
    [Choices |-> <<Choice("shebang", shebang.interpreter, <<>>, FALSE,
                          "Extension " \o ext \o " not recognized, using shebang: "
                              \o shebang.fullLine,
                          ~shebang.usesEnv)>>,
     Error   |-> Nil]

UnrecognizedResult(ext, shebang) ==
    [Choices |-> <<Choice("shebang", shebang.interpreter, <<>>, FALSE,
                          "Extension " \o ext \o " not recognized, using shebang: "
                              \o shebang.fullLine,
                          TRUE)>>,
     Error   |-> Nil]

\* Case 4: some alternative of the extension has the shebang interpreter's family.
Consistent_ComparesNames(alternatives, shebang) ==
    \E k \in 1..Len(alternatives) : alternatives[k] = shebang.interpreter

Consistent(alternatives, shebang) ==
    LET shebangFamily == getInterpreterFamily(shebang.interpreter)
    IN  \E k \in 1..Len(alternatives) : getInterpreterFamily(alternatives[k]) = shebangFamily

\* Case 4, consistent: extension-based, automatic.
ConsistentResult_KeepsShebang(ext, alternatives, shebang) ==
    [Choices |-> <<Choice("extension-alternatives", "", <<shebang.interpreter>>, FALSE,
                          "Shebang (" \o shebang.interpreter \o ") consistent with extension "
                              \o ext, FALSE)>>,
     Error   |-> Nil]

ConsistentResult(ext, alternatives, shebang) ==
    [Choices |-> <<Choice("extension-alternatives", "", alternatives, FALSE,
                          "Shebang (" \o shebang.interpreter \o ") consistent with extension "
                              \o ext, FALSE)>>,
     Error   |-> Nil]

\* Case 4, inconsistent: both options offered.
InconsistentResult_ShebangFirst(alternatives, shebang) ==
    [Choices |-> <<Choice("shebang", shebang.interpreter, <<>>, FALSE,
                          "Use shebang interpreter: " \o shebang.fullLine, TRUE),
                   Choice("extension-alternatives", "", alternatives, FALSE,
                          "Use extension-based interpreter (recommended)", TRUE)>>,
     Error   |-> Nil]

InconsistentResult(alternatives, shebang) ==
    [Choices |-> <<Choice("extension-alternatives", "", alternatives, FALSE,
                          "Use extension-based interpreter (recommended)", TRUE),
                   Choice("shebang", shebang.interpreter, <<>>, FALSE,
                          "Use shebang interpreter: " \o shebang.fullLine, TRUE)>>,
     Error   |-> Nil]

determineWithShebang(d, ext, shebang) ==
    IF HasUnsafeArguments(shebang) THEN ArgumentsResult(ext, shebang)
    ELSE IF ext = "" THEN NoExtensionResult(shebang)
    ELSE IF ext \notin DOMAIN ExtensionMap THEN UnrecognizedResult(ext, shebang)
    ELSE IF Consistent(ExtensionMap[ext], shebang)
         THEN ConsistentResult(ext, ExtensionMap[ext], shebang)
         ELSE InconsistentResult(ExtensionMap[ext], shebang)

DetermineInterpreterChoices_ShebangBeforeExplicit(d) ==
    LET shebang == parseShebang(d.scriptContent)
        ext     == Ext(d.scriptPath)
    IN  IF shebang # Nil
        THEN IF d.trustShebang THEN TrustResult(shebang[1])
             ELSE determineWithShebang(d, ext, shebang[1])
        ELSE IF d.explicitInterpreter # "" THEN ExplicitResult(d)
        ELSE IF ext \in DOMAIN ExtensionMap THEN ExtensionOnlyResult(ext)
        ELSE UndeterminableResult(d, ext)

DetermineInterpreterChoices(d) ==
    LET shebang == parseShebang(d.scriptContent)
        ext     == Ext(d.scriptPath)
    IN  IF d.explicitInterpreter # "" THEN ExplicitResult(d)
        ELSE IF shebang # Nil
             THEN IF d.trustShebang THEN TrustResult(shebang[1])
                  ELSE determineWithShebang(d, ext, shebang[1])
        ELSE IF ext \in DOMAIN ExtensionMap THEN ExtensionOnlyResult(ext)
        ELSE UndeterminableResult(d, ext)

(***************************************************************************)
(* Path resolver                                                           *)
(***************************************************************************)

\* The directories of $PATH, in search order.
PathDirs == <<"/usr/local/bin", "/usr/bin">>

\* filepath.Join of a directory and a plain name (no separator, no dot
\* element, so that Clean changes nothing): joined with one separator.
FilepathJoin(dir, name) == IF name = "" THEN dir ELSE dir \o "/" \o name

\* exec.LookPath (Unix): a name with a separator is tried as it stands, any
\* other name in each directory of $PATH in order; Nil when nothing is found,
\* else <<path>>.
LookPath(file) ==
    IF Contains(file, "/")
    THEN IF file \in executables THEN <<file>> ELSE Nil
    ELSE LET hits  == {k \in 1..Len(PathDirs) : FilepathJoin(PathDirs[k], file) \in executables}
             first == CHOOSE k \in hits : \A m \in hits : k <= m
         IN  IF hits = {} THEN Nil ELSE <<FilepathJoin(PathDirs[first], file)>>

\* The results below carry, besides what the Go function returns, the names
\* it passed to exec.LookPath (lookups).
resolveInterpreter_FallsBack(name) ==
    IF IsAbs(name) THEN [path |-> name, err |-> Nil, lookups |-> <<>>]
    ELSE IF LookPath(name) = Nil
         THEN [path |-> FilepathJoin("/usr/bin", name), err |-> Nil, lookups |-> <<name>>]
         ELSE [path |-> LookPath(name)[1], err |-> Nil, lookups |-> <<name>>]

resolveInterpreter_AlwaysLooksUp(name) ==
    IF LookPath(name) = Nil
    THEN [path |-> "", err |-> <<"interpreter '" \o name \o "' not found in PATH">>,
          lookups |-> <<name>>]
    ELSE [path |-> LookPath(name)[1], err |-> Nil, lookups |-> <<name>>]

resolveInterpreter(name) ==
    IF IsAbs(name) THEN [path |-> name, err |-> Nil, lookups |-> <<>>]
    ELSE IF LookPath(name) = Nil
         THEN [path |-> "", err |-> <<"interpreter '" \o name \o "' not found in PATH">>,
               lookups |-> <<name>>]
         ELSE [path |-> LookPath(name)[1], err |-> Nil, lookups |-> <<name>>]

resolveInterpreterWithoutCheck_LocalBin(name) ==
    IF IsAbs(name) THEN [path |-> name, err |-> Nil]
    ELSE [path |-> FilepathJoin("/usr/local/bin", name), err |-> Nil]

resolveInterpreterWithoutCheck(name) ==
    IF IsAbs(name) THEN [path |-> name, err |-> Nil]
    ELSE [path |-> FilepathJoin("/usr/bin", name), err |-> Nil]

selectBestAlternative_FirstOnly(alternatives) ==
    IF Len(alternatives) = 0
    THEN [path |-> "", warning |-> "", err |-> <<"no interpreter alternatives provided">>,
          lookups |-> <<>>]
    ELSE IF LookPath(alternatives[1]) # Nil
    THEN [path |-> LookPath(alternatives[1])[1], warning |-> "", err |-> Nil,
          lookups |-> <<alternatives[1]>>]
    ELSE [path    |-> resolveInterpreterWithoutCheck(alternatives[1]).path,
          warning |-> "Warning: '" \o alternatives[1] \o "' not found on PATH (tried: "
                          \o Join(alternatives, ", ") \o ")",
          err     |-> Nil,
          lookups |-> <<alternatives[1]>>]

selectBestAlternative(alternatives) ==
    LET found == {k \in 1..Len(alternatives) : LookPath(alternatives[k]) # Nil}
        k     == CHOOSE m \in found : \A n \in found : m <= n
        first == alternatives[1]
        guess == resolveInterpreterWithoutCheck(first)
    IN  IF Len(alternatives) = 0
        THEN [path |-> "", warning |-> "", err |-> <<"no interpreter alternatives provided">>,
              lookups |-> <<>>]
        ELSE IF found # {}
        THEN [path |-> LookPath(alternatives[k])[1], warning |-> "", err |-> Nil,
              lookups |-> SubSeq(alternatives, 1, k)]
        ELSE IF guess.err # Nil
        THEN [path |-> "", warning |-> "", err |-> guess.err, lookups |-> alternatives]
        ELSE [path    |-> guess.path,
              warning |-> "Warning: '" \o first \o "' not found on PATH (tried: "
                              \o Join(alternatives, ", ") \o ")",
              err     |-> Nil,
              lookups |-> alternatives]

resolveChoice(choice) ==
    IF choice.Source = "explicit"
    THEN LET r == resolveInterpreter(choice.Interpreter)
         IN  [path |-> r.path, warning |-> "", err |-> r.err, lookups |-> r.lookups]
    ELSE IF choice.UseShebang \/ choice.Source = "shebang"
    THEN LET r == resolveInterpreter(choice.Interpreter)
         IN  [path |-> r.path, warning |-> "", err |-> r.err, lookups |-> r.lookups]
    ELSE IF choice.Source = "extension-alternatives"
    THEN selectBestAlternative(choice.Alternatives)
    ELSE [path |-> "", warning |-> "",
          err |-> <<"internal error: unknown choice source " \o choice.Source>>,
          lookups |-> <<>>]

(***************************************************************************)
(* Interactive mediator                                                    *)
(***************************************************************************)

\* fmt.Fscanln(os.Stdin, &input) on one line of standard input: the first
\* space-separated token, or "" when the read fails (empty line).
Fscanln(line) == IF Fields(line) = <<>> THEN "" ELSE Fields(line)[1]

\* strings.Trim(s, cutset), cutset given as a set of characters
Trim(s, cutset) ==
    LET idx == {i \in 1..Len(s) : Ch(s, i) \notin cutset}
        Min == CHOOSE i \in idx : \A j \in idx : i <= j
        Max == CHOOSE i \in idx : \A j \in idx : i >= j
    IN  IF idx = {} THEN "" ELSE SubSeq(s, Min, Max)

\* fmt.Sprintf("%d", n) for one decimal digit
Itoa(n) == Ch("0123456789", n + 1)

\* fmt.Sscanf(selected, "%d", &idx) for a string of decimal digits; idx stays
\* 0 when the parse fails.
RECURSIVE Atoi(_)
Atoi(str) ==
    IF str = "" \/ \E i \in 1..Len(str) : ~IsDigit(Ch(str, i)) THEN 0
    ELSE LET last == CHOOSE n \in 0..9 : Itoa(n) = Ch(str, Len(str))
         IN  IF Len(str) = 1 THEN last
             ELSE 10 * Atoi(SubSeq(str, 1, Len(str) - 1)) + last

promptChoice_KeepsInvalid(defaultPrompt, validChoices, line) ==
    LET read  == TrimSpace(Fscanln(line))
    IN  IF read = "" THEN Trim(defaultPrompt, {"[", "]"}) ELSE read

promptChoice(defaultPrompt, validChoices, line) ==
    LET read  == TrimSpace(Fscanln(line))
        input1 == IF read = "" THEN Trim(defaultPrompt, {"[", "]"}) ELSE read
    IN  IF \E k \in 1..Len(validChoices) : validChoices[k] = input1 THEN input1
        ELSE IF Len(validChoices) > 0 THEN validChoices[1]
        ELSE input1

promptSingleChoice_AlwaysApproves(choice, line) ==
    promptChoice("[1]", <<"1", "2">>, line) # ""

promptSingleChoice(choice, line) ==
    promptChoice("[1]", <<"1", "2">>, line) = "1"

\* promptMultipleChoices: Nil on abort, else <<the selected choice>>.
promptMultipleChoices(choices, line) ==
    LET validChoices == [k \in 1..(Len(choices) + 1) |-> Itoa(k)]
        selected     == promptChoice("[1]", validChoices, line)
        idx          == Atoi(selected)
    IN  IF idx < 1 \/ idx > Len(choices) THEN Nil ELSE <<choices[idx]>>

(***************************************************************************)
(* Inputs                                                                  *)
(***************************************************************************)

\* The k-th argument written on a generated shebang line.
Arg(k) == IF k = 1 THEN "-u" ELSE IF k = 2 THEN "-W" ELSE IF k = 3 THEN "ignore" ELSE "-x"

RECURSIVE ArgsText(_)
ArgsText(n) == IF n = 0 THEN "" ELSE ArgsText(n - 1) \o " " \o Arg(n)

InterpreterNames ==
    {"python", "python3", "python3.11", "ruby", "bash", "foo", "foo3.11", "shell"}

\* Shebang lines: direct path form and env form, with 0..MaxArgs arguments,
\* with and without leading whitespace.
ShebangLines ==
    {lead \o "#!" \o prefix \o name \o ArgsText(n) :
        lead \in {"", "  "}, prefix \in {"/usr/bin/", "/usr/bin/env "},
        name \in InterpreterNames, n \in 0..MaxArgs}

\* First lines that are no ordinary shebang.
OtherLines ==
    {"print('hello')", "", "#!", "#!   ", "#!/", "#!/usr/bin/env",
     "#! /usr/bin/env /opt/bin/python", "#!/usr/bin/env -S python3 -u", "# !/bin/sh",
     "#!/bin/sh", "#!/bin/sh /usr/bin/env ruby"}

FirstLines == ShebangLines \cup OtherLines

ScriptContents ==
    FirstLines \cup {line \o "\n" \o "echo hello" \o "\n" : line \in {"#!/bin/sh", "print('hello')", ""}}
               \cup {"#!/usr/bin/env ruby" \o "\r\n" \o "puts 1"}

ScriptPaths ==
    {"script", "script.py", "script.rb", "script.sh", "script.xyz", "script.",
     "scripts/tool.js", "scripts.d/tool", ".py"}

ExplicitInterpreters == {"", "ruby", "/opt/x/python"}

\* The DecisionInput built by NewDecisionInput from the state.
input ==
    [scriptPath |-> scriptPath, scriptContent |-> scriptContent,
     explicitInterpreter |-> explicitInterpreter, trustShebang |-> trustShebang]

NoDecision == [Choices |-> <<>>, Error |-> Nil]

NoResult == [path |-> "", warning |-> "", err |-> Nil]

\* The locals of runInstall before they are assigned.
NoInstallState == [name |-> "", binDir |-> "", reg |-> {}, localScriptPath |-> ""]

\* Detect is called on its own: no install command is running.
InstallIdle ==
    /\ opts = [Repo |-> "", Name |-> "", Into |-> ""]
    /\ registryFile = Nil
    /\ files = {}
    /\ before = [registryFile |-> Nil, files |-> {}]
    /\ installState = NoInstallState
    /\ steps = <<>>
    /\ installErr = Nil

\* Nothing of Detect beyond DetermineInterpreterChoices has happened.
DetectIdle ==
    /\ prompted = "none"
    /\ answer = Nil
    /\ resolved = <<>>
    /\ lookups = <<>>
    /\ result = NoResult
    /\ exitCode = Nil

Init ==
    /\ scriptPath \in ScriptPaths
    /\ scriptContent \in ScriptContents
    /\ explicitInterpreter \in ExplicitInterpreters
    /\ trustShebang \in BOOLEAN
    /\ decision = NoDecision
    /\ pc = "start"
    /\ executables = {}
    /\ DetectIdle
    /\ InstallIdle

\* The call input.DetermineInterpreterChoices().
Determine ==
    /\ pc = "start"
    /\ decision' = DetermineInterpreterChoices(input)
    /\ pc' = "decided"
    /\ UNCHANGED <<inputVars, detectVars, installVars>>

Next == Determine

Spec == Init /\ [][Next]_vars

(***************************************************************************)
(* Detect, and the install command around it                               *)
(***************************************************************************)

\* File systems the search path is resolved against.
ExecutableSets ==
    { {},
      {"/usr/bin/python3", "/usr/bin/python", "/usr/bin/ruby", "/usr/bin/sh",
       "/usr/bin/bash", "/usr/bin/env"},
      {"/usr/bin/python", "/usr/local/bin/ruby", "/usr/bin/ruby"},
      {"/usr/local/bin/python3", "/usr/bin/node", "/opt/bin/python"} }

\* Lines the user may type at the prompt.
StdinLines == {"", "1", "2", "3", "x", " 2", "2 1"}

DetectInit ==
    /\ scriptPath \in ScriptPaths
    /\ scriptContent \in ScriptContents
    /\ explicitInterpreter \in ExplicitInterpreters
    /\ trustShebang \in BOOLEAN
    /\ decision = NoDecision
    /\ pc = "start"
    /\ executables \in ExecutableSets
    /\ DetectIdle
    /\ InstallIdle

\* Detect returns resolveChoice(choice).
ReturnResolved(choice) ==
    LET r == resolveChoice(choice)
    IN  /\ resolved' = Append(resolved, choice)
        /\ lookups' = lookups \o r.lookups
        /\ result' = [path |-> r.path, warning |-> r.warning, err |-> r.err]

\* Detect returns the abort error.
ReturnAborted ==
    /\ result' = [path |-> "", warning |-> "", err |-> <<"installation aborted by user">>]
    /\ UNCHANGED <<resolved, lookups>>

\* Detect, single choice: the prompt is needed.
SinglePromptRequired_OnlyVerbatim(choice) == choice.UseShebang

SinglePromptRequired(choice) == choice.RequiresPrompt

\* Detect: the decision is an error (or, defensively, has no choice).
DetectFail ==
    /\ pc = "decided"
    /\ decision.Error # Nil \/ Len(decision.Choices) = 0
    /\ result' = [path |-> "", warning |-> "",
                  err  |-> IF decision.Error # Nil THEN decision.Error
                           ELSE <<"internal error: no choices determined for " \o scriptPath>>]
    /\ pc' = "done"
    /\ UNCHANGED <<inputVars, decision, executables, prompted, answer, resolved, lookups,
                   exitCode, installVars>>

\* Detect: a single choice that needs no prompt is resolved directly.
DetectAutomatic ==
    /\ pc = "decided"
    /\ decision.Error = Nil
    /\ Len(decision.Choices) = 1
    /\ ~SinglePromptRequired(decision.Choices[1])
    /\ ReturnResolved(decision.Choices[1])
    /\ pc' = "done"
    /\ UNCHANGED <<inputVars, decision, executables, prompted, answer, exitCode, installVars>>

\* Detect: a single choice that requires the prompt.
DetectSingle ==
    /\ pc = "decided"
    /\ decision.Error = Nil
    /\ Len(decision.Choices) = 1
    /\ SinglePromptRequired(decision.Choices[1])
    /\ \E line \in StdinLines :
          /\ prompted' = "single"
          /\ answer' = <<line>>
          /\ IF promptSingleChoice(decision.Choices[1], line)
             THEN ReturnResolved(decision.Choices[1])
             ELSE ReturnAborted
    /\ pc' = "done"
    /\ UNCHANGED <<inputVars, decision, executables, exitCode, installVars>>

\* Detect: multiple choices.
DetectMultiple ==
    /\ pc = "decided"
    /\ decision.Error = Nil
    /\ Len(decision.Choices) > 1
    /\ \E line \in StdinLines :
          LET selectedChoice == promptMultipleChoices(decision.Choices, line)
          IN  /\ prompted' = "multiple"
              /\ answer' = <<line>>
              /\ IF selectedChoice = Nil
                 THEN ReturnAborted
                 ELSE ReturnResolved(selectedChoice[1])
    /\ pc' = "done"
    /\ UNCHANGED <<inputVars, decision, executables, exitCode, installVars>>

\* runInstall returns the error of Detect, and main prints it and exits with
\* status 1.
InstallFailed ==
    /\ pc = "done"
    /\ result.err # Nil
    /\ steps' = Append(steps, "Detect")
    /\ installErr' = result.err
    /\ exitCode' = <<1>>
    /\ pc' = "exited"
    /\ UNCHANGED <<inputVars, decision, executables, prompted, answer, resolved, lookups,
                   result, opts, registryFile, files, before, installState>>

DetectNext ==
    \/ Determine
    \/ DetectFail
    \/ DetectAutomatic
    \/ DetectSingle
    \/ DetectMultiple
    \/ InstallFailed

DetectSpec == DetectInit /\ [][DetectNext]_vars

(***************************************************************************)
(* The install command: runInstall, the registry and the wrapper           *)
(***************************************************************************)

\* strings.TrimSuffix
TrimSuffix(s, suffix) ==
    IF HasSuffix(s, suffix) THEN SubSeq(s, 1, Len(s) - Len(suffix)) ELSE s

\* runInstall: the wrapper name, --name or the script's file name without
\* its extension.
WrapperName(o, path) ==
    IF o.Name # "" THEN o.Name
    ELSE LET base == Base(path) IN TrimSuffix(base, Ext(base))

\* What config.GetDefaultBinDir and config.GetDefaultScriptDir return when
\* they succeed.
DefaultBinDir    == "/home/u/.local/bin"
DefaultScriptDir == "/home/u/.local/share/scriptman/scripts"

\* A registry is the set of its entries [name, script], one per name
\* (the map Registry.Scripts).

\* registry.Load: the empty registry when there is no file, an error when the
\* file cannot be read or parsed, else the entries of the file.
Load(file, readable) ==
    IF file = Nil THEN [reg |-> {}, err |-> Nil]
    ELSE IF ~readable
    THEN [reg |-> {}, err |-> <<"failed to read registry: permission denied">>]
    ELSE [reg |-> file[1], err |-> Nil]

\* Registry.Exists
Exists_Never(reg, name) == FALSE

Exists(reg, name) == \E e \in reg : e.name = name

\* Registry.Add: adds the entry, or replaces the one of the same name.
Add(reg, name, script) ==
    {e \in reg : e.name # name} \cup {[name |-> name, script |-> script]}

\* os.WriteFile on the set of files: the file is created or overwritten.
WriteFile(fs, path, content) ==
    {f \in fs : f.path # path} \cup {[path |-> path, content |-> content]}

\* wrapper.CreateWrapper: the text of the shell wrapper.
WrapperText(interpreterPath, localScript) ==
    "#!/bin/sh\nexec " \o interpreterPath \o " " \o localScript \o " \"$@\"\n"

\* The registry.Script that runInstall adds (InstalledAt left out).
NewScript(interpPath, localScriptPath, wrapperPath) ==
    [Repo |-> opts.Repo, SourcePath |-> scriptPath, LocalScript |-> localScriptPath,
     Interpreter |-> interpPath, WrapperPath |-> wrapperPath]

\* Inputs of the install command.
InstallPaths == {"script.py", "script", "scripts/tool.js", "scriptman.sh"}

InstallNames == {"", "tool", "scriptman"}

InstallIntos == {"", "/opt/bin"}

\* An entry of a script installed earlier.
Installed(n) ==
    [name   |-> n,
     script |-> [Repo |-> "owner/other", SourcePath |-> n \o ".sh",
                 LocalScript |-> FilepathJoin(DefaultScriptDir, n \o ".sh"),
                 Interpreter |-> "/usr/bin/sh",
                 WrapperPath |-> FilepathJoin(DefaultBinDir, n)]]

RegistryFiles ==
    {Nil, <<{}>>, <<{Installed("tool")}>>, <<{Installed("tool"), Installed("script")}>>}

\* The files of the scripts of a registry file.
FilesOf(file) ==
    IF file = Nil THEN {}
    ELSE UNION {{[path |-> e.script.LocalScript, content |-> "echo hello"],
                 [path |-> e.script.WrapperPath,
                  content |-> WrapperText(e.script.Interpreter, e.script.LocalScript)]} :
                    e \in file[1]}

\* What github.FetchScript may deliver.
FetchedContents ==
    {"#!/usr/bin/env python3\nprint('hello')\n", "print('hello')", "#!/usr/bin/python3 -u",
     "#!/bin/sh\necho hello\n"}

InstallInit ==
    /\ scriptPath \in InstallPaths
    /\ scriptContent = ""
    /\ explicitInterpreter \in {"", "ruby"}
    /\ trustShebang = FALSE
    /\ decision = NoDecision
    /\ pc = "invoked"
    /\ executables \in ExecutableSets
    /\ DetectIdle
    /\ opts \in [Repo : {"owner/repo"}, Name : InstallNames, Into : InstallIntos]
    /\ registryFile \in RegistryFiles
    /\ files = FilesOf(registryFile)
    /\ before = [registryFile |-> registryFile, files |-> files]
    /\ installState = NoInstallState
    /\ steps = <<>>
    /\ installErr = Nil

\* runInstall returns err; main prints it and exits with status 1.
ReturnError(err) ==
    /\ installErr' = <<err>>
    /\ exitCode' = <<1>>
    /\ pc' = "exited"

\* runInstall up to the check of the name against the registry: the name,
\* the reserved name, the target directory, the registry.
InstallCheckName ==
    /\ pc = "invoked"
    /\ \E configOk, readable \in BOOLEAN :
          LET name   == WrapperName(opts, scriptPath)
              binDir == IF opts.Into # "" THEN <<opts.Into>>
                        ELSE IF configOk THEN <<DefaultBinDir>> ELSE Nil
              loaded == Load(registryFile, readable)
          IN  IF name = "scriptman"
              THEN /\ ReturnError("'scriptman' is reserved for the management CLI\n"
                                      \o "Choose a different name with --name")
                   /\ UNCHANGED installState
              ELSE IF binDir = Nil
              THEN /\ ReturnError("failed to get default bin directory: failed to load config")
                   /\ UNCHANGED installState
              ELSE IF loaded.err # Nil
              THEN /\ ReturnError("failed to load registry: " \o loaded.err[1])
                   /\ UNCHANGED installState
              ELSE IF Exists(loaded.reg, name)
              THEN /\ ReturnError("script '" \o name \o "' is already installed\nUse 'scriptman remove "
                                      \o name \o "' first or choose a different name with --name")
                   /\ UNCHANGED installState
              ELSE /\ installState' = [name |-> name, binDir |-> binDir[1],
                                       reg |-> loaded.reg, localScriptPath |-> ""]
                   /\ pc' = "checked"
                   /\ UNCHANGED <<installErr, exitCode>>
    /\ UNCHANGED <<inputVars, decision, executables, prompted, answer, resolved, lookups,
                   result, opts, registryFile, files, before, steps>>

\* runInstall: github.FetchScript, then the call of interpreter.Detect.
InstallFetch ==
    /\ pc = "checked"
    /\ steps' = Append(steps, "FetchScript")
    /\ \E fetched \in {Nil} \cup {<<c>> : c \in FetchedContents} :
          IF fetched = Nil
          THEN /\ ReturnError("failed to fetch script: failed to fetch script: HTTP 404")
               /\ UNCHANGED scriptContent
          ELSE /\ scriptContent' = fetched[1]
               /\ pc' = "start"
               /\ UNCHANGED <<installErr, exitCode>>
    /\ UNCHANGED <<scriptPath, explicitInterpreter, trustShebang, decision, executables,
                   prompted, answer, resolved, lookups, result, opts, registryFile, files,
                   before, installState>>

\* runInstall after Detect returned a path: the script directory and
\* github.SaveScript.
InstallSaveScript_RegistersFirst ==
    /\ pc = "done"
    /\ result.err = Nil
    /\ \E configOk, written \in BOOLEAN :
          LET localScriptPath == FilepathJoin(DefaultScriptDir, Base(scriptPath))
              wrapperPath     == FilepathJoin(installState.binDir, installState.name)
          IN  IF ~configOk
              THEN /\ steps' = Append(steps, "Detect")
                   /\ ReturnError("failed to get default script directory: failed to load config")
                   /\ UNCHANGED <<files, installState, registryFile>>
              ELSE /\ steps' = steps \o <<"Detect", "SaveScript">>
                   /\ registryFile' =
                          <<Add(installState.reg, installState.name,
                                NewScript(result.path, localScriptPath, wrapperPath))>>
                   /\ IF ~written
                      THEN /\ ReturnError("failed to save script: failed to write script file")
                           /\ UNCHANGED <<files, installState>>
                      ELSE /\ files' = WriteFile(files, localScriptPath, scriptContent)
                           /\ installState' =
                                  [installState EXCEPT !.localScriptPath = localScriptPath]
                           /\ pc' = "saved"
                           /\ UNCHANGED <<installErr, exitCode>>
    /\ UNCHANGED <<inputVars, decision, executables, prompted, answer, resolved, lookups,
                   result, opts, before>>

InstallSaveScript ==
    /\ pc = "done"
    /\ result.err = Nil
    /\ \E configOk, written \in BOOLEAN :
          LET localScriptPath == FilepathJoin(DefaultScriptDir, Base(scriptPath))
          IN  IF ~configOk
              THEN /\ steps' = Append(steps, "Detect")
                   /\ ReturnError("failed to get default script directory: failed to load config")
                   /\ UNCHANGED <<files, installState>>
              ELSE /\ steps' = steps \o <<"Detect", "SaveScript">>
                   /\ IF ~written
                      THEN /\ ReturnError("failed to save script: failed to write script file")
                           /\ UNCHANGED <<files, installState>>
                      ELSE /\ files' = WriteFile(files, localScriptPath, scriptContent)
                           /\ installState' =
                                  [installState EXCEPT !.localScriptPath = localScriptPath]
                           /\ pc' = "saved"
                           /\ UNCHANGED <<installErr, exitCode>>
    /\ UNCHANGED <<inputVars, decision, executables, prompted, answer, resolved, lookups,
                   result, opts, registryFile, before>>

\* runInstall: wrapper.CreateWrapper.
InstallCreateWrapper ==
    /\ pc = "saved"
    /\ steps' = Append(steps, "CreateWrapper")
    /\ \E written \in BOOLEAN :
          LET wrapperPath == FilepathJoin(installState.binDir, installState.name)
          IN  IF ~written
              THEN /\ ReturnError("failed to create wrapper: failed to write wrapper")
                   /\ UNCHANGED files
              ELSE /\ files' = WriteFile(files, wrapperPath,
                                         WrapperText(result.path, installState.localScriptPath))
                   /\ pc' = "wrapped"
                   /\ UNCHANGED <<installErr, exitCode>>
    /\ UNCHANGED <<inputVars, decision, executables, prompted, answer, resolved, lookups,
                   result, opts, registryFile, before, installState>>

\* runInstall: reg.Add and reg.Save, and the successful return.
InstallRegister ==
    /\ pc = "wrapped"
    /\ steps' = steps \o <<"Add", "Save">>
    /\ \E written \in BOOLEAN :
          LET wrapperPath == FilepathJoin(installState.binDir, installState.name)
              reg == Add(installState.reg, installState.name,
                         NewScript(result.path, installState.localScriptPath, wrapperPath))
          IN  /\ installState' = [installState EXCEPT !.reg = reg]
              /\ IF ~written
                 THEN /\ ReturnError("failed to save registry: failed to write registry")
                      /\ UNCHANGED registryFile
                 ELSE /\ registryFile' = <<reg>>
                      /\ exitCode' = <<0>>
                      /\ pc' = "installed"
                      /\ UNCHANGED installErr
    /\ UNCHANGED <<inputVars, decision, executables, prompted, answer, resolved, lookups,
                   result, opts, files, before>>

InstallNext ==
    \/ InstallCheckName
    \/ InstallFetch
    \/ Determine
    \/ DetectFail
    \/ DetectAutomatic
    \/ DetectSingle
    \/ DetectMultiple
    \/ InstallFailed
    \/ InstallSaveScript
    \/ InstallCreateWrapper
    \/ InstallRegister

InstallSpec == InstallInit /\ [][InstallNext]_vars

(***************************************************************************)
(* Properties of DetermineInterpreterChoices                               *)
(***************************************************************************)

Decided == pc = "decided"

\* The shebang hint of the script and the extension of its path.
HasHint == parseShebang(scriptContent) # Nil
hint    == parseShebang(scriptContent)[1]
ext     == Ext(scriptPath)

Recognized == ext \in DOMAIN ExtensionMap

\* The hint carries arguments and is not in env form.
ArgsNotEnv == Len(hint.arguments) > 0 /\ ~hint.usesEnv

\* Some alternative of the (recognized) extension has the hint's family.
SharesFamily ==
    \E k \in 1..Len(ExtensionMap[ext]) :
        getInterpreterFamily(ExtensionMap[ext][k]) = getInterpreterFamily(hint.interpreter)

\* No override and trustShebang not set.
Plain == explicitInterpreter = "" /\ ~trustShebang

OneChoice == decision.Error = Nil /\ Len(decision.Choices) = 1

TwoChoices == decision.Error = Nil /\ Len(decision.Choices) = 2

\* Extension-based choice first, shebang choice second, both requiring the prompt.
ExtensionThenShebangPrompted ==
    /\ Len(decision.Choices) = 2
    /\ decision.Choices[1].Source = "extension-alternatives"
    /\ decision.Choices[2].Source = "shebang"
    /\ decision.Choices[1].RequiresPrompt
    /\ decision.Choices[2].RequiresPrompt

\* C1: a non-empty explicit override gives no error and exactly one choice,
\* of Source explicit, carrying the override string, without prompt, whatever
\* the path, the content and trustShebang are.
C1_ExplicitOverride ==
    (Decided /\ explicitInterpreter # "") =>
        /\ OneChoice
        /\ decision.Choices[1].Source = "explicit"
        /\ decision.Choices[1].Interpreter = explicitInterpreter
        /\ ~decision.Choices[1].RequiresPrompt

C1_Witness ==
    /\ Decided /\ explicitInterpreter # "" /\ trustShebang
    /\ HasHint /\ Recognized /\ ~SharesFamily /\ ArgsNotEnv
    /\ OneChoice /\ decision.Choices[1].Source = "explicit"

\* C2: no override, a hint present and trustShebang set give exactly one
\* choice of Source shebang, carrying the hint's interpreter name, without
\* prompt, for every extension and every form of hint.
C2_TrustShebang ==
    (Decided /\ explicitInterpreter = "" /\ HasHint /\ trustShebang) =>
        /\ OneChoice
        /\ decision.Choices[1].Source = "shebang"
        /\ decision.Choices[1].Interpreter = hint.interpreter
        /\ ~decision.Choices[1].RequiresPrompt

C2_Witness ==
    /\ Decided /\ explicitInterpreter = "" /\ trustShebang
    /\ HasHint /\ ArgsNotEnv /\ Recognized /\ ~SharesFamily
    /\ OneChoice /\ decision.Choices[1].Source = "shebang"

\* C3 as stated: whenever a hint is present and its family is that of some
\* alternative of the recognized extension, there is exactly one choice and
\* it needs no prompt (for every form of hint).
C3_ConsistentAlwaysAutomatic ==
    (Decided /\ HasHint /\ Recognized /\ SharesFamily) =>
        /\ Len(decision.Choices) = 1
        /\ ~decision.Choices[1].RequiresPrompt

\* C3 amended: the same, except for a hint that carries arguments in non-env
\* form while there is no override and trustShebang is not set.
C3_ConsistentAutomatic ==
    (Decided /\ HasHint /\ Recognized /\ SharesFamily /\ ~(Plain /\ ArgsNotEnv)) =>
        /\ Len(decision.Choices) = 1
        /\ ~decision.Choices[1].RequiresPrompt

C3_Witness ==
    /\ Decided /\ Plain /\ HasHint /\ Recognized /\ SharesFamily
    /\ hint.usesEnv /\ Len(hint.arguments) > 0
    /\ hint.interpreter \notin DOMAIN interpreterFamilies
    /\ Len(decision.Choices) = 1 /\ ~decision.Choices[1].RequiresPrompt

\* C4: no override, trustShebang not set, a hint present, a recognized
\* extension none of whose alternatives has the hint's family: exactly two
\* choices, extension-alternatives then shebang, both requiring the prompt.
C4_InconsistentTwoChoices ==
    (Decided /\ Plain /\ HasHint /\ Recognized /\ ~SharesFamily) =>
        TwoChoices /\ ExtensionThenShebangPrompted

C4_Witness ==
    /\ Decided /\ Plain /\ HasHint /\ Recognized /\ ~SharesFamily /\ ~ArgsNotEnv
    /\ TwoChoices /\ ExtensionThenShebangPrompted

\* C5: no override, trustShebang not set, a hint with arguments in non-env
\* form: every choice requires the prompt, and against a recognized extension
\* there are exactly two choices (extension-alternatives, shebang), even when
\* the families are consistent.
C5_ArgumentsNeverAutomatic ==
    (Decided /\ Plain /\ HasHint /\ ArgsNotEnv) =>
        /\ decision.Error = Nil
        /\ Len(decision.Choices) >= 1
        /\ \A k \in 1..Len(decision.Choices) : decision.Choices[k].RequiresPrompt
        /\ Recognized => ExtensionThenShebangPrompted

C5_Witness ==
    /\ Decided /\ Plain /\ HasHint /\ ArgsNotEnv /\ Recognized /\ SharesFamily
    /\ TwoChoices /\ ExtensionThenShebangPrompted

\* C6: no override, no hint, a recognized extension: no error and exactly
\* one choice of Source extension-alternatives, without prompt, whose
\* Alternatives are the table's list for the extension, for either value of
\* trustShebang.
C6_ExtensionOnly ==
    (Decided /\ explicitInterpreter = "" /\ ~HasHint /\ Recognized) =>
        /\ OneChoice
        /\ decision.Choices[1].Source = "extension-alternatives"
        /\ ~decision.Choices[1].RequiresPrompt
        /\ decision.Choices[1].Alternatives = ExtensionMap[ext]
        /\ ext = ".py" => decision.Choices[1].Alternatives = <<"python3", "python">>

C6_Witness ==
    /\ Decided /\ explicitInterpreter = "" /\ ~HasHint /\ ext = ".py" /\ trustShebang
    /\ OneChoice /\ decision.Choices[1].Alternatives = <<"python3", "python">>

\* C7: no override, no hint, extension absent or not in the table: zero
\* choices and a non-nil error, for either value of trustShebang.
C7_Undeterminable ==
    (Decided /\ explicitInterpreter = "" /\ ~HasHint /\ ~Recognized) =>
        /\ Len(decision.Choices) = 0
        /\ decision.Error # Nil

C7_Witness ==
    /\ Decided /\ explicitInterpreter = "" /\ ~HasHint /\ ~Recognized /\ ext # ""
    /\ trustShebang /\ scriptContent # ""
    /\ Len(decision.Choices) = 0 /\ decision.Error # Nil

\* C8: the DecisionResult has either a nil Error and 1 or 2 choices, or a
\* non-nil Error and no choice.
C8_ChoicesXorError ==
    Decided =>
        \/ decision.Error = Nil /\ Len(decision.Choices) \in {1, 2}
        \/ decision.Error # Nil /\ Len(decision.Choices) = 0

C8_Witness ==
    /\ Decided /\ Plain /\ HasHint /\ ArgsNotEnv /\ ~Recognized
    /\ decision.Error = Nil /\ Len(decision.Choices) = 1

WithoutExt(path) == SubSeq(path, 1, Len(path) - Len(Ext(path)))

C11_ConsistentUsesExtension ==
    (Decided /\ Plain /\ HasHint /\ ~ArgsNotEnv /\ Recognized /\ SharesFamily) =>
        /\ OneChoice
        /\ decision.Choices[1].Source = "extension-alternatives"
        /\ decision.Choices[1].Alternatives = ExtensionMap[ext]
        /\ decision.Choices[1].Interpreter = ""
        /\ ~decision.Choices[1].RequiresPrompt
        /\ (hint.interpreter = "bash" /\ ext = ".sh") =>
               decision.Choices[1].Alternatives = <<"sh">>

C11_Witness ==
    /\ Decided /\ Plain /\ HasHint /\ ~ArgsNotEnv
    /\ hint.interpreter = "bash" /\ ext = ".sh"
    /\ OneChoice /\ decision.Choices[1].Alternatives = <<"sh">>

(***************************************************************************)
(* Properties of Detect and of the path resolver                           *)
(***************************************************************************)

Returned == pc \in {"done", "exited"}

\* The decision calls for the mediator: more than one choice, or exactly one
\* that requires the prompt.
NeedsMediator ==
    /\ decision.Error = Nil
    /\ \/ Len(decision.Choices) > 1
       \/ Len(decision.Choices) = 1 /\ decision.Choices[1].RequiresPrompt

\* What the user typed, as the mediator reads it.
Typed == TrimSpace(Fscanln(answer[1]))

\* The user declined the single confirmation or chose the abort option.
Aborted ==
    /\ Returned
    /\ \/ prompted = "single" /\ Typed = "2"
       \/ prompted = "multiple" /\ Typed = Itoa(Len(decision.Choices) + 1)

\* name is found by a search of $PATH.
OnPath(name) == \E k \in 1..Len(PathDirs) : (PathDirs[k] \o "/" \o name) \in executables

\* Detect resolved an extension-alternatives choice.
ResolvedAlternatives ==
    /\ Returned
    /\ Len(resolved) = 1
    /\ resolved[1].Source = "extension-alternatives"
    /\ ~resolved[1].UseShebang

\* Detect resolved an explicit or a shebang choice.
ResolvedSingleName ==
    /\ Returned
    /\ Len(resolved) = 1
    /\ resolved[1].Source \in {"explicit", "shebang"}

\* C12: Detect invokes the mediator exactly when the decision has more than
\* one choice or one choice requiring the prompt; on an error nothing is
\* prompted or resolved, and a single choice without prompt is resolved
\* directly.
C12_MediatorExactlyWhenNeeded ==
    Returned =>
        /\ (prompted # "none") <=> NeedsMediator
        /\ prompted = "single" => Len(decision.Choices) = 1
        /\ prompted = "multiple" => Len(decision.Choices) > 1
        /\ decision.Error # Nil => prompted = "none" /\ resolved = <<>>
        /\ (decision.Error = Nil /\ ~NeedsMediator) =>
               prompted = "none" /\ resolved = <<decision.Choices[1]>>

C12_Witness ==
    /\ pc = "done" /\ prompted = "single" /\ NeedsMediator
    /\ ~decision.Choices[1].UseShebang
    /\ resolved = <<decision.Choices[1]>>

\* C13: on abort Detect returns the aborted-by-user error as a value, with an
\* empty path and an empty warning; no choice reached resolveChoice and no
\* PATH lookup was made.
C13_AbortResolvesNothing ==
    Aborted =>
        /\ resolved = <<>>
        /\ lookups = <<>>
        /\ result = [path |-> "", warning |-> "", err |-> <<"installation aborted by user">>]

C13_Witness ==
    /\ pc = "done" /\ Aborted /\ prompted = "multiple" /\ executables # {}
    /\ result.err = <<"installation aborted by user">>

\* C14 as stated: an abort ends the install command cleanly, not as a failure.
C14_AbortIsCleanExit ==
    (Aborted /\ pc = "exited") => exitCode = <<0>>

\* C15: resolving an extension-alternatives choice of which some alternative
\* is on the search path returns the search-path resolution of the first such
\* alternative in list order, with no warning and no error.
C15_FirstFoundWins ==
    (ResolvedAlternatives /\ \E k \in 1..Len(resolved[1].Alternatives) :
                                OnPath(resolved[1].Alternatives[k])) =>
        LET alts == resolved[1].Alternatives
            k    == CHOOSE m \in 1..Len(alts) :
                        OnPath(alts[m]) /\ \A n \in 1..(m - 1) : ~OnPath(alts[n])
        IN  /\ result.path = LookPath(alts[k])[1]
            /\ result.path \in executables
            /\ result.warning = ""
            /\ result.err = Nil
            /\ lookups = SubSeq(alts, 1, k)

C15_Witness ==
    /\ pc = "done" /\ ResolvedAlternatives
    /\ resolved[1].Alternatives = <<"python3", "python">>
    /\ ~OnPath("python3") /\ OnPath("python")
    /\ result.path = "/usr/bin/python"

\* C16: resolving an extension-alternatives choice never fails; when no
\* alternative is on the search path the result is the first alternative
\* under /usr/bin with a warning naming the alternatives tried, and Detect
\* returns a warning in this case only.
C16_FallbackWithWarning ==
    /\ ResolvedAlternatives =>
          LET alts == resolved[1].Alternatives
              none == \A k \in 1..Len(alts) : ~OnPath(alts[k])
          IN  /\ result.err = Nil
              /\ none => /\ result.path = "/usr/bin/" \o alts[1]
                         /\ Contains(result.warning, Join(alts, ", "))
              /\ (result.warning # "") <=> none
    /\ (Returned /\ result.warning # "") => ResolvedAlternatives

C16_Witness ==
    /\ pc = "done" /\ ResolvedAlternatives
    /\ resolved[1].Alternatives = <<"python3", "python">>
    /\ ~OnPath("python3") /\ ~OnPath("python")
    /\ result.path = "/usr/bin/python3" /\ result.warning # ""

\* C17: an explicit or shebang choice whose name is not absolute and is not
\* found on the search path resolves to the not-found error with an empty
\* path and an empty warning; for these sources a returned path is the name
\* itself or an existing executable, never a constructed fallback.
C17_NotFoundIsError ==
    ResolvedSingleName =>
        LET name == resolved[1].Interpreter
        IN  /\ (~IsAbs(name) /\ LookPath(name) = Nil) =>
                   result = [path |-> "", warning |-> "",
                             err  |-> <<"interpreter '" \o name \o "' not found in PATH">>]
            /\ result.err = Nil => (result.path = name \/ result.path \in executables)

C17_Witness ==
    /\ pc = "exited" /\ ResolvedSingleName
    /\ resolved[1].Source = "shebang" /\ resolved[1].Interpreter = "ruby"
    /\ ~OnPath("ruby") /\ OnPath("python3")
    /\ result.path = "" /\ result.err # Nil

FirstLineText ==
    IF ScanFirstLine(scriptContent) = Nil THEN "" ELSE ScanFirstLine(scriptContent)[1]

\* The first line begins with the marker; it does so once trimmed.
RawMarker     == HasPrefix(FirstLineText, "#!")
TrimmedMarker == HasPrefix(TrimSpace(FirstLineText), "#!")

\* Without override the decision is that of the extension-only branch or
\* the undeterminable error.
FallsThrough ==
    explicitInterpreter = "" =>
        /\ Recognized =>
              /\ OneChoice
              /\ decision.Choices[1].Source = "extension-alternatives"
              /\ decision.Choices[1].Reason = "Based on file extension " \o ext
              /\ ~decision.Choices[1].RequiresPrompt
        /\ ~Recognized => (decision.Error # Nil /\ Len(decision.Choices) = 0)

\* C19 as stated: a first line that does not begin with #!, leading white
\* space included, yields no hint, and the decision falls through to the
\* extension-only or undeterminable branch.
C19_NoMarkerAtStartNoHint ==
    (Decided /\ ~RawMarker) => (~HasHint /\ FallsThrough)

\* C19 amended: a first line that, once its surrounding white space is
\* trimmed, does not begin with #! yields no hint and the decision falls
\* through; white space before a #! that is followed by an interpreter token
\* is trimmed and the hint is found.
C19_NoTrimmedMarkerNoHint ==
    /\ (Decided /\ ~TrimmedMarker) => (~HasHint /\ FallsThrough)
    /\ (Decided /\ ~RawMarker /\ TrimmedMarker
            /\ Fields(SubSeq(TrimSpace(FirstLineText), 3, Len(TrimSpace(FirstLineText)))) # <<>>) =>
           /\ HasHint
           /\ (Plain /\ ext = "") =>
                  (OneChoice /\ decision.Choices[1].Source = "shebang")

C19_Witness ==
    /\ Decided /\ Plain /\ ext = ""
    /\ ~RawMarker /\ TrimmedMarker
    /\ HasHint /\ OneChoice /\ decision.Choices[1].Source = "shebang"

\* C20 as stated: a first line that is exactly #!/usr/bin/env yields no hint,
\* so the decision is that of the same script without any shebang.
C20_BareEnvIsNoHint ==
    (Decided /\ FirstLineText = "#!/usr/bin/env") =>
        /\ ~HasHint
        /\ decision = DetermineInterpreterChoices([input EXCEPT !.scriptContent = "print('hello')"])

(***************************************************************************)
(* Properties of the shebang hint and of the family classifier             *)
(***************************************************************************)

\* C21 as stated: the interpreter name of every hint is a base name, with
\* no directory separator in it, in the direct form and in the env form.
C21_HintIsBaseName ==
    (Decided /\ HasHint) => ~Contains(hint.interpreter, "/")

\* The text after the marker, and its tokens.
AfterMarker == TrimSpace(SubSeq(TrimSpace(FirstLineText), 3, Len(TrimSpace(FirstLineText))))
Tokens      == Fields(AfterMarker)

\* Token i ends in /env and another token follows it.
EnvAt(i) == HasSuffix(Tokens[i], "/env") /\ i < Len(Tokens)

\* The first token that ends in /env and is followed by another one.
FirstEnv == CHOOSE i \in 1..Len(Tokens) : EnvAt(i) /\ \A k \in 1..(i - 1) : ~EnvAt(k)

\* C22: for a first line with the marker, the hint is the one of the
\* reference rule: after the first token ending in /env that has a follower,
\* the follower is the interpreter, the tokens after it are the arguments and
\* usesEnv is true; without such a token the interpreter is the base name of
\* the first token, the arguments are the other tokens and usesEnv is false;
\* with no token at all there is no hint.
C22_ReferenceRule ==
    (Decided /\ TrimmedMarker) =>
        IF Tokens = <<>> THEN ~HasHint
        ELSE /\ HasHint
             /\ IF \E i \in 1..Len(Tokens) : EnvAt(i)
                THEN /\ hint.interpreter = Tokens[FirstEnv + 1]
                     /\ hint.arguments = SubSeq(Tokens, FirstEnv + 2, Len(Tokens))
                     /\ hint.usesEnv
                ELSE /\ hint.interpreter = Base(Tokens[1])
                     /\ hint.arguments = Tail(Tokens)
                     /\ ~hint.usesEnv

\* An env token that is not the first token.
C22_Witness ==
    /\ Decided /\ TrimmedMarker
    /\ Len(Tokens) = 3 /\ EnvAt(2) /\ ~EnvAt(1)
    /\ hint.interpreter = "ruby" /\ hint.arguments = <<>> /\ hint.usesEnv

\* The family tags of the table.
FamilyTags == {interpreterFamilies[n] : n \in DOMAIN interpreterFamilies}

\* C23: classifying a family again gives the same family, for the name of
\* the hint and for every name and tag of the tables; a tag is its own family.
C23_FamilyIdempotent ==
    /\ (Decided /\ HasHint) =>
           getInterpreterFamily(getInterpreterFamily(hint.interpreter))
               = getInterpreterFamily(hint.interpreter)
    /\ \A n \in DOMAIN interpreterFamilies \cup FamilyTags :
           getInterpreterFamily(getInterpreterFamily(n)) = getInterpreterFamily(n)
    /\ \A t \in FamilyTags : getInterpreterFamily(t) = t

\* A versioned name outside the table.
C23_Witness ==
    /\ Decided /\ HasHint
    /\ hint.interpreter = "foo3.11"
    /\ getInterpreterFamily(hint.interpreter) = "foo"
    /\ getInterpreterFamily(getInterpreterFamily(hint.interpreter)) = "foo"

\* The name without its minor version: a final "." digits after a digit is
\* removed, the major digits stay.
MinorStripped(n) ==
    LET minor == TrailingDigits(n)
        dot   == Len(n) - minor
    IN  IF minor >= 1 /\ dot >= 2 /\ Ch(n, dot) = "." /\ IsDigit(Ch(n, dot - 1))
        THEN SubSeq(n, 1, dot - 1)
        ELSE n

\* C24 as stated: the family of a name is that of the name without its minor
\* version, python3.11 being looked up as python3 and foo3.11 having the
\* family foo3.
C24_StripsMinorOnly ==
    (Decided /\ HasHint) =>
        getInterpreterFamily(hint.interpreter) =
            IF MinorStripped(hint.interpreter) \in DOMAIN interpreterFamilies
            THEN interpreterFamilies[MinorStripped(hint.interpreter)]
            ELSE MinorStripped(hint.interpreter)

(***************************************************************************)
(* Properties of the decision as a function                                *)
(***************************************************************************)

\* The text of c before its first line feed.
RECURSIVE BeforeLineFeed(_)
BeforeLineFeed(c) ==
    IF c = "" \/ Ch(c, 1) = "\n" THEN ""
    ELSE Ch(c, 1) \o BeforeLineFeed(SubSeq(c, 2, Len(c)))

\* The first line of c, without the carriage return of a "\r\n" line end.
FirstLineOf(c) ==
    LET l == BeforeLineFeed(c)
    IN  IF l # "" /\ Ch(l, Len(l)) = "\r" THEN SubSeq(l, 1, Len(l) - 1) ELSE l

\* The first line of every script content.
FirstLineTable == [c \in ScriptContents |-> FirstLineOf(c)]

\* C25: the decision is the same for every content with the same first
\* line, and is that of the first line alone, under every file system of the
\* search path; when DetermineInterpreterChoices has returned nobody has been
\* prompted and no name has been looked up.
C25_PureOfFirstLine ==
    Decided =>
        /\ \A c \in ScriptContents :
               FirstLineTable[c] = FirstLineTable[scriptContent] =>
                   DetermineInterpreterChoices([input EXCEPT !.scriptContent = c]) = decision
        /\ DetermineInterpreterChoices(
               [input EXCEPT !.scriptContent = FirstLineTable[scriptContent]]) = decision
        /\ prompted = "none" /\ answer = Nil
        /\ lookups = <<>> /\ resolved = <<>>

\* A shebang decision of a content that goes on after its first line, with
\* executables on the search path.
C25_Witness ==
    /\ Decided
    /\ scriptContent # FirstLineTable[scriptContent]
    /\ FirstLineTable[scriptContent] \in ScriptContents
    /\ HasHint /\ OneChoice /\ decision.Choices[1].Source = "shebang"
    /\ executables # {}
    /\ lookups = <<>> /\ prompted = "none"

(***************************************************************************)
(* Properties of the resolution of a shebang choice                        *)
(***************************************************************************)

\* The directories of the search path that hold an executable called name.
DirsHolding(name) ==
    {k \in 1..Len(PathDirs) : (PathDirs[k] \o "/" \o name) \in executables}

\* C26 as stated: the path returned for a choice of shebang origin comes from
\* the search path and the interpreter name of the hint alone: it is the
\* name in the first directory of the search path that holds it, an error
\* when none does; neither the directory nor the arguments written on the
\* shebang line show in it, whether the choice is "verbatim" or not.
C26_ShebangPathFromSearchPath ==
    (Returned /\ Len(resolved) = 1 /\ resolved[1].Source = "shebang" /\ HasHint) =>
        LET name == hint.interpreter
            hits == DirsHolding(name)
            dir  == CHOOSE k \in hits : \A m \in hits : k <= m
        IN  /\ resolved[1].Interpreter = name
            /\ IF hits = {}
               THEN result.err # Nil /\ result.path = ""
               ELSE result.err = Nil /\ result.path = PathDirs[dir] \o "/" \o name

(***************************************************************************)
(* Properties of the mediator's reading of the answer                      *)
(***************************************************************************)

\* The number of options shown, the abort option being the last one.
OptionCount == IF prompted = "single" THEN 2 ELSE Len(decision.Choices) + 1

\* What was read is the number of a listed option.
Listed == \E k \in 1..OptionCount : Typed = Itoa(k)

\* Detect returned the abort error.
AbortReturned == result.err = <<"installation aborted by user">>

DefensiveErrors ==
    {<<"internal error: no choices determined for " \o scriptPath>>,
     <<"no interpreter alternatives provided">>}
        \cup {<<"internal error: unknown choice source " \o decision.Choices[k].Source>> :
                 k \in 1..Len(decision.Choices)}

\* C28: Detect returns either no error and a non-empty path, or an error
\* with an empty path and an empty warning; a decision without error has a
\* choice, every choice is explicit, of the shebang, or a non-empty list of
\* alternatives, and the error returned is none of the defensive ones.
C28_ReturnShapes ==
    /\ (pc # "start" /\ decision.Error = Nil) =>
           /\ Len(decision.Choices) >= 1
           /\ \A k \in 1..Len(decision.Choices) :
                  \/ decision.Choices[k].Source \in {"explicit", "shebang"}
                  \/ /\ decision.Choices[k].Source = "extension-alternatives"
                     /\ Len(decision.Choices[k].Alternatives) >= 1
    /\ Returned =>
           /\ \/ result.err = Nil /\ result.path # ""
              \/ result.err # Nil /\ result.path = "" /\ result.warning = ""
           /\ result.err \notin DefensiveErrors

\* The error of a chosen name that is not found: empty path, empty warning.
C28_Witness ==
    /\ Returned /\ prompted = "multiple"
    /\ Len(resolved) = 1 /\ resolved[1].Source = "shebang"
    /\ result.err # Nil /\ result.err \notin DefensiveErrors
    /\ result.path = "" /\ result.warning = ""

(***************************************************************************)
(* Properties of the install command                                       *)
(***************************************************************************)

\* The wrapper name the command works with: --name, or the file name of the
\* script without its extension.
ClaimedName == IF opts.Name # "" THEN opts.Name ELSE WithoutExt(Base(scriptPath))

\* The name is in the given registry file.
RegisteredIn(file) == file # Nil /\ \E e \in file[1] : e.name = ClaimedName

\* runInstall has called f.
Called(f) == \E i \in 1..Len(steps) : steps[i] = f

\* C29: when the name is scriptman or is in the registry as the command
\* begins, runInstall returns an error (the reserved-name error for
\* scriptman) having fetched nothing, detected nothing, written no file and
\* left the registry as it was.
C29_RejectedBeforeSideEffects ==
    (pc # "invoked" /\ (ClaimedName = "scriptman" \/ RegisteredIn(before.registryFile))) =>
        /\ pc = "exited" /\ installErr # Nil /\ exitCode = <<1>>
        /\ ClaimedName = "scriptman" =>
               installErr = <<"'scriptman' is reserved for the management CLI\n"
                                  \o "Choose a different name with --name">>
        /\ steps = <<>> /\ scriptContent = ""
        /\ decision = NoDecision /\ result = NoResult
        /\ prompted = "none" /\ lookups = <<>> /\ resolved = <<>>
        /\ files = before.files
        /\ registryFile = before.registryFile

\* A name derived from the path and found in the registry.
C29_Witness ==
    /\ pc = "exited"
    /\ opts.Name = "" /\ scriptPath = "script.py" /\ ClaimedName = "script"
    /\ RegisteredIn(before.registryFile)
    /\ installErr # Nil /\ HasPrefix(installErr[1], "script 'script' is already installed")
    /\ steps = <<>> /\ files = before.files /\ registryFile = before.registryFile

\* The command ended with an error after the fetch began and before reg.Add.
FailedBeforeAdd == pc = "exited" /\ steps # <<>> /\ ~Called("Add")

\* The script file runInstall saves.
SavedScript ==
    [path |-> FilepathJoin(DefaultScriptDir, Base(scriptPath)), content |-> scriptContent]

\* C30: reg.Add is called only after FetchScript, Detect, SaveScript and
\* CreateWrapper, in that order and all successful; the registry on disk
\* changes only at the successful end, by the entry of the name; after a
\* failure of one of the four steps (abort and undeterminable interpreter
\* included) the registry on disk is as before and does not hold the name;
\* after a failure of CreateWrapper the saved script file is still there.
C30_RegistryLast ==
    /\ Called("Add") =>
           /\ SubSeq(steps, 1, 4) = <<"FetchScript", "Detect", "SaveScript", "CreateWrapper">>
           /\ scriptContent \in FetchedContents
           /\ result.err = Nil /\ result.path # ""
           /\ SavedScript \in files
           /\ \E f \in files :
                  f.path = FilepathJoin(installState.binDir, ClaimedName)
    /\ registryFile # before.registryFile =>
           /\ pc = "installed" /\ installErr = Nil
           /\ steps = <<"FetchScript", "Detect", "SaveScript", "CreateWrapper", "Add", "Save">>
           /\ RegisteredIn(registryFile) /\ ~RegisteredIn(before.registryFile)
           /\ {e \in registryFile[1] : e.name # ClaimedName} =
                  (IF before.registryFile = Nil THEN {} ELSE before.registryFile[1])
    /\ FailedBeforeAdd =>
           /\ installErr # Nil
           /\ registryFile = before.registryFile
           /\ ~RegisteredIn(registryFile)
    /\ (pc = "exited" /\ steps # <<>> /\ steps[Len(steps)] = "CreateWrapper") =>
           SavedScript \in files

\* The wrapper could not be written: the script file stays, the registry is
\* as before.
C30_Witness ==
    /\ pc = "exited"
    /\ steps = <<"FetchScript", "Detect", "SaveScript", "CreateWrapper">>
    /\ installErr = <<"failed to create wrapper: failed to write wrapper">>
    /\ SavedScript \in files /\ SavedScript \notin before.files
    /\ registryFile = before.registryFile /\ ~RegisteredIn(registryFile)

====
